---- MODULE Spec2Model ----
(***************************************************************************)
(* Model of the authentication domain of sneakers_hub: the RefreshToken    *)
(* aggregate (domain/entities/user/refresh_token.py), the User aggregate   *)
(* (domain/entities/user/user.py) and the TokenService operations that     *)
(* connect them (domain/services/auth/token_service.py).                   *)
(*                                                                         *)
(* Time is counted in whole days: a datetime is an integer, a timedelta of *)
(* d days is the integer d.  Every datetime.now() call of the source is a  *)
(* separate read of the clock: a method that reads the clock twice may see *)
(* it advance between the reads.                                           *)
(***************************************************************************)
EXTENDS Integers, Sequences, FiniteSets, TLC

VARIABLES
    now,    \* the wall clock, datetime.now(timezone.utc)
    tok,    \* the RefreshToken entity, NoToken before RefreshToken.create
    plain,  \* the plaintext token handed to RefreshToken.create
    user,   \* the User entity
    res     \* outcome of the last call: operation, argument, result or error

vars == <<now, tok, plain, user, res>>

-----------------------------------------------------------------------------
(* Bounds of the model *)

MaxNow == 3         \* the clock runs over 0..MaxNow
MaxLen == 1         \* plaintext tokens have at most MaxLen characters
MaxLogins == 2      \* record_login is called while login_count < MaxLogins

-----------------------------------------------------------------------------
(* Values *)

\* Python None in an Optional[datetime] field
NULL == -1

\* UserId.generate(): the id of the one user of the model
UserIdValue == "u1"

\* No RefreshToken has been constructed yet
NoToken == [id |-> "none"]

Alphabet == {"a", "b"}

\* str values of the token parameter: tuples of characters, "" is <<>>
Strings == UNION {[1..n -> Alphabet] : n \in 0..MaxLen}

\* expires_in_days / days arguments tried by the callers
DaysInputs == {0, 1, 30, 90, 91}

\* the second and later datetime.now() reads of one call
Reads(t) == {t2 \in {t, t + 1} : t2 <= MaxNow}

\* no dictionary
NoClaims == [type |-> "none"]

\* outcomes of a call
Raise(kind, self, clk) ==
    [ok |-> FALSE, err |-> kind, self |-> self, clk |-> clk, ret |-> NULL]

Return(self, clk, value) ==
    [ok |-> TRUE, err |-> "none", self |-> self, clk |-> clk, ret |-> value]

\* the record of a call with outcome r: the operation, whether it returned
\* or raised, the error kind; and, when the call has one, the integer
\* argument (days), the plaintext argument (token), the boolean argument
\* (flag), the value-object argument (text), the boolean result (ret) and the
\* identity of the object returned (out), the dictionary returned (claims) and
\* the expires_in of the AuthTokenResult returned; dirty tells that the
\* aggregate a command worked on differed from the stored one when it ended;
\* against is the plaintext a password was verified against, domain the
\* domain of the Email constructed
Res(op, r) ==
    [op |-> op, ok |-> r.ok, err |-> r.err, days |-> NULL, token |-> <<>>,
     flag |-> FALSE, text |-> "", ret |-> FALSE, out |-> "none",
     claims |-> NoClaims, expires_in |-> NULL, dirty |-> FALSE,
     against |-> <<>>, domain |-> <<>>]

-----------------------------------------------------------------------------
(* RefreshToken: domain/entities/user/refresh_token.py *)

\* token.encode("utf-8")
encode_utf8(token) ==
    [i \in 1..Len(token) |-> CASE token[i] = "a" -> 97 [] token[i] = "b" -> 98]

\* hashlib.sha256(...).hexdigest(): a deterministic digest, free of collisions
\* on the bounded inputs (the digest of a byte string is its bijective
\* base-257 numeral)
RECURSIVE sha256_hexdigest(_)
sha256_hexdigest(bytes) ==
    IF bytes = <<>> THEN 0
    ELSE sha256_hexdigest(SubSeq(bytes, 1, Len(bytes) - 1)) * 257
             + bytes[Len(bytes)] + 1

_hash_token(token) == sha256_hexdigest(encode_utf8(token))

_generate_token_id == "tid"

\* mutant: a token counts as valid at the very instant it expires
is_valid_inclusive(self, clk) == ~self.is_revoked /\ self.expires_at >= clk

\* mutant: the revocation flag is not consulted
is_valid_ignores_revocation(self, clk) == self.expires_at > clk

is_valid(self, clk) == ~self.is_revoked /\ self.expires_at > clk

is_expired(self, clk) == self.expires_at <= clk

\* mutant: the validity check is missing
use_unchecked(self, t1, t2) ==
    Return([self EXCEPT !.last_used_at = t2], t2, NULL)

\* use(): t1 is the clock read by is_valid(), t2 the read that is stored
use(self, t1, t2) ==
    IF ~is_valid(self, t1)
    THEN Raise("BusinessRuleViolationError", self, t1)
    ELSE Return([self EXCEPT !.last_used_at = t2], t2, NULL)

\* mutant: a revoked token is revoked again and its revoked_at overwritten
revoke_again(self, t1) ==
    Return([self EXCEPT !.is_revoked = TRUE, !.revoked_at = t1], t1, NULL)

\* mutant: only a valid token can be revoked
revoke_requires_valid(self, t1) ==
    IF self.is_revoked \/ self.expires_at <= t1
    THEN Raise("BusinessRuleViolationError", self, t1)
    ELSE Return([self EXCEPT !.is_revoked = TRUE, !.revoked_at = t1], t1, NULL)

revoke(self, t1) ==
    IF self.is_revoked
    THEN Raise("BusinessRuleViolationError", self, t1)
    ELSE Return([self EXCEPT !.is_revoked = TRUE, !.revoked_at = t1], t1, NULL)

\* mutant: a revoked token verifies nothing
verify_token_requires_unrevoked(self, token) ==
    IF token = <<>> \/ self.is_revoked THEN FALSE
    ELSE self.token_hash = _hash_token(token)

verify_token(self, token) ==
    IF token = <<>> THEN FALSE
    ELSE self.token_hash = _hash_token(token)

\* mutant: extend_expiry has no upper limit on days
extend_expiry_uncapped(self, days, t1, t2) ==
    IF ~is_valid(self, t1)
    THEN Raise("BusinessRuleViolationError", self, t1)
    ELSE IF days <= 0
    THEN Raise("DomainValidationError", self, t1)
    ELSE Return([self EXCEPT !.expires_at = t2 + days], t2, NULL)

\* mutant: extend_expiry tests the revocation and not the expiry
extend_expiry_ignores_expiry(self, days, t1, t2) ==
    IF self.is_revoked
    THEN Raise("BusinessRuleViolationError", self, t1)
    ELSE IF days <= 0 \/ days > 90
    THEN Raise("DomainValidationError", self, t1)
    ELSE Return([self EXCEPT !.expires_at = t2 + days], t2, NULL)

\* mutant: only expiry is checked, not revocation
extend_expiry_ignores_revocation(self, days, t1, t2) ==
    IF self.expires_at <= t1
    THEN Raise("BusinessRuleViolationError", self, t1)
    ELSE IF days <= 0 \/ days > 90
    THEN Raise("DomainValidationError", self, t1)
    ELSE Return([self EXCEPT !.expires_at = t2 + days], t2, NULL)

\* extend_expiry(days): t1 is the clock read by is_valid(), t2 the later read
extend_expiry(self, days, t1, t2) ==
    IF ~is_valid(self, t1)
    THEN Raise("BusinessRuleViolationError", self, t1)
    ELSE IF days <= 0 \/ days > 90
    THEN Raise("DomainValidationError", self, t1)
    ELSE Return([self EXCEPT !.expires_at = t2 + days], t2, NULL)

get_remaining_time(self, clk) ==
    IF self.expires_at <= clk THEN 0 ELSE self.expires_at - clk

\* mutant: the lifetime is not added to the creation time
create_without_lifetime(user_id, token, expires_in_days, device_info, ip_address, user_agent, clk) ==
    IF expires_in_days <= 0 \/ expires_in_days > 90
    THEN Raise("DomainValidationError", NoToken, clk)
    ELSE Return(NoToken, clk,
                [id |-> _generate_token_id,
                 user_id |-> user_id,
                 token_hash |-> _hash_token(token),
                 created_at |-> clk,
                 expires_at |-> clk,
                 last_used_at |-> NULL,
                 is_revoked |-> FALSE,
                 revoked_at |-> NULL,
                 device_info |-> device_info,
                 ip_address |-> ip_address,
                 user_agent |-> user_agent])

create(user_id, token, expires_in_days, device_info, ip_address, user_agent, clk) ==
    IF expires_in_days <= 0 \/ expires_in_days > 90
    THEN Raise("DomainValidationError", NoToken, clk)
    ELSE Return(NoToken, clk,
                [id |-> _generate_token_id,
                 user_id |-> user_id,
                 token_hash |-> _hash_token(token),
                 created_at |-> clk,
                 expires_at |-> clk + expires_in_days,
                 last_used_at |-> NULL,
                 is_revoked |-> FALSE,
                 revoked_at |-> NULL,
                 device_info |-> device_info,
                 ip_address |-> ip_address,
                 user_agent |-> user_agent])

create_long_lived(user_id, token, device_info, ip_address, user_agent, clk) ==
    create(user_id, token, 90, device_info, ip_address, user_agent, clk)

-----------------------------------------------------------------------------
(* User: domain/entities/user/user.py *)

\* No User has been constructed yet
NoUser == [id |-> "none"]

\* Python None in an Optional[str] field
NoneStr == [none |-> TRUE]

\* A str of a profile field: lead whitespace characters, core characters
\* that begin and end with a non-blank one, trail whitespace characters
Str(lead, core, trail) == [lead |-> lead, core |-> core, trail |-> trail]

len(s) == s.lead + s.core + s.trail

strip(s) == Str(0, s.core, 0)

\* truth value of an Optional[str]: None and "" are false
truthy(s) == s # NoneStr /\ len(s) > 0

\* `s or None`
or_none(s) == IF truthy(s) THEN s ELSE NoneStr

\* mutant: the time of the update is not recorded
_mark_as_updated_skipped(self, clk) == self

_mark_as_updated(self, clk) == [self EXCEPT !.updated_at = clk]

\* mutant: activation also asks for a verified email
activate_requires_verified_email(self, t1) ==
    IF self.status = "ACTIVE" \/ self.email_verified_at = NULL
    THEN Raise("BusinessRuleViolationError", self, t1)
    ELSE Return(_mark_as_updated([self EXCEPT !.status = "ACTIVE"], t1), t1, NULL)

activate(self, t1) ==
    IF self.status = "ACTIVE"
    THEN Raise("BusinessRuleViolationError", self, t1)
    ELSE Return(_mark_as_updated([self EXCEPT !.status = "ACTIVE"], t1), t1, NULL)

\* mutant: a suspended account loses its role
suspend_demotes(self, t1) ==
    IF self.status = "SUSPENDED"
    THEN Raise("BusinessRuleViolationError", self, t1)
    ELSE Return(_mark_as_updated([self EXCEPT !.status = "SUSPENDED",
                                              !.role = "USER"], t1),
                t1, NULL)

suspend(self, t1) ==
    IF self.status = "SUSPENDED"
    THEN Raise("BusinessRuleViolationError", self, t1)
    ELSE Return(_mark_as_updated([self EXCEPT !.status = "SUSPENDED"], t1), t1, NULL)

\* mutant: deactivation leaves the account suspended
deactivate_as_suspended(self, t1) ==
    IF self.status = "INACTIVE"
    THEN Raise("BusinessRuleViolationError", self, t1)
    ELSE Return(_mark_as_updated([self EXCEPT !.status = "SUSPENDED"], t1), t1, NULL)

deactivate(self, t1) ==
    IF self.status = "INACTIVE"
    THEN Raise("BusinessRuleViolationError", self, t1)
    ELSE Return(_mark_as_updated([self EXCEPT !.status = "INACTIVE"], t1), t1, NULL)

\* mutant: verification activates the account whatever its status
verify_email_activates(self, t1, t2) ==
    IF self.email_verified_at # NULL
    THEN Raise("BusinessRuleViolationError", self, t1)
    ELSE Return(_mark_as_updated([self EXCEPT !.email_verified_at = t1,
                                              !.status = "ACTIVE"], t2),
                t2, NULL)

\* mutant: the email is marked verified but a pending account stays pending
verify_email_keeps_status(self, t1, t2) ==
    IF self.email_verified_at # NULL
    THEN Raise("BusinessRuleViolationError", self, t1)
    ELSE Return(_mark_as_updated([self EXCEPT !.email_verified_at = t1], t2), t2, NULL)

\* verify_email(): t1 is stored in email_verified_at, t2 in updated_at
verify_email(self, t1, t2) ==
    IF self.email_verified_at # NULL
    THEN Raise("BusinessRuleViolationError", self, t1)
    ELSE LET verified == [self EXCEPT !.email_verified_at = t1]
             activated == IF verified.status = "PENDING_VERIFICATION"
                          THEN [verified EXCEPT !.status = "ACTIVE"]
                          ELSE verified
         IN  Return(_mark_as_updated(activated, t2), t2, NULL)

change_password(self, new_password, t1) ==
    Return(_mark_as_updated([self EXCEPT !.password = new_password], t1), t1, NULL)

\* mutant: a changed email puts the account back to pending verification
change_email_reopens_verification(self, new_email, t1) ==
    IF self.email = new_email
    THEN Raise("BusinessRuleViolationError", self, t1)
    ELSE Return(_mark_as_updated([self EXCEPT !.email = new_email,
                                              !.email_verified_at = NULL,
                                              !.status = "PENDING_VERIFICATION"], t1),
                t1, NULL)

\* mutant: the new email inherits the verification of the old one
change_email_keeps_verification(self, new_email, t1) ==
    IF self.email = new_email
    THEN Raise("BusinessRuleViolationError", self, t1)
    ELSE Return(_mark_as_updated([self EXCEPT !.email = new_email], t1), t1, NULL)

change_email(self, new_email, t1) ==
    IF self.email = new_email
    THEN Raise("BusinessRuleViolationError", self, t1)
    ELSE Return(_mark_as_updated([self EXCEPT !.email = new_email,
                                              !.email_verified_at = NULL], t1),
                t1, NULL)

change_username(self, new_username, t1) ==
    IF self.username = new_username
    THEN Raise("BusinessRuleViolationError", self, t1)
    ELSE Return(_mark_as_updated([self EXCEPT !.username = new_username], t1),
                t1, NULL)

\* update_profile(): each field is checked and assigned in turn, so a later
\* field's error leaves the earlier assignments in place
update_profile(self, first_name, last_name, avatar_url, t1) ==
    IF first_name # NoneStr /\ len(strip(first_name)) > 50
    THEN Raise("DomainValidationError", self, t1)
    ELSE
    LET s1 == IF first_name # NoneStr
              THEN [self EXCEPT !.first_name = or_none(strip(first_name))]
              ELSE self
    IN
    IF last_name # NoneStr /\ len(strip(last_name)) > 50
    THEN Raise("DomainValidationError", s1, t1)
    ELSE
    LET s2 == IF last_name # NoneStr
              THEN [s1 EXCEPT !.last_name = or_none(strip(last_name))]
              ELSE s1
    IN
    IF avatar_url # NoneStr /\ truthy(avatar_url) /\ len(avatar_url) > 500
    THEN Raise("DomainValidationError", s2, t1)
    ELSE
    LET s3 == IF avatar_url # NoneStr
              THEN [s2 EXCEPT !.avatar_url = or_none(avatar_url)]
              ELSE s2
    IN  Return(_mark_as_updated(s3, t1), t1, NULL)

\* mutant: the login time is stored and the login is not counted
record_login_uncounted(self, t1, t2) ==
    IF self.status # "ACTIVE"
    THEN Raise("BusinessRuleViolationError", self, t1)
    ELSE Return(_mark_as_updated([self EXCEPT !.last_login_at = t1], t2), t2, NULL)

\* mutant: the login is recorded whatever the status
record_login_any_status(self, t1, t2) ==
    Return(_mark_as_updated([self EXCEPT !.last_login_at = t1,
                                         !.login_count = @ + 1], t2),
           t2, NULL)

\* record_login(): t1 is stored in last_login_at, t2 in updated_at
record_login(self, t1, t2) ==
    IF self.status # "ACTIVE"
    THEN Raise("BusinessRuleViolationError", self, t1)
    ELSE Return(_mark_as_updated([self EXCEPT !.last_login_at = t1,
                                              !.login_count = @ + 1], t2),
                t2, NULL)

\* mutant: the administrator check is missing
promote_to_moderator_from_admin(self, t1) ==
    IF self.status # "ACTIVE"
    THEN Raise("BusinessRuleViolationError", self, t1)
    ELSE Return(_mark_as_updated([self EXCEPT !.role = "MODERATOR"], t1), t1, NULL)

promote_to_moderator(self, t1) ==
    IF self.role = "ADMIN"
    THEN Raise("BusinessRuleViolationError", self, t1)
    ELSE IF self.status # "ACTIVE"
    THEN Raise("BusinessRuleViolationError", self, t1)
    ELSE Return(_mark_as_updated([self EXCEPT !.role = "MODERATOR"], t1), t1, NULL)

promote_to_admin(self, t1) ==
    IF self.status # "ACTIVE"
    THEN Raise("BusinessRuleViolationError", self, t1)
    ELSE Return(_mark_as_updated([self EXCEPT !.role = "ADMIN"], t1), t1, NULL)

\* mutant: only an active user can be demoted
demote_to_user_requires_active(self, t1) ==
    IF self.role = "USER" \/ self.status # "ACTIVE"
    THEN Raise("BusinessRuleViolationError", self, t1)
    ELSE Return(_mark_as_updated([self EXCEPT !.role = "USER"], t1), t1, NULL)

demote_to_user(self, t1) ==
    IF self.role = "USER"
    THEN Raise("BusinessRuleViolationError", self, t1)
    ELSE Return(_mark_as_updated([self EXCEPT !.role = "USER"], t1), t1, NULL)

subscribe_to_newsletter(self, t1) ==
    IF self.is_newsletter_subscribed
    THEN Raise("BusinessRuleViolationError", self, t1)
    ELSE Return(_mark_as_updated([self EXCEPT !.is_newsletter_subscribed = TRUE], t1),
                t1, NULL)

unsubscribe_from_newsletter(self, t1) ==
    IF ~self.is_newsletter_subscribed
    THEN Raise("BusinessRuleViolationError", self, t1)
    ELSE Return(_mark_as_updated([self EXCEPT !.is_newsletter_subscribed = FALSE], t1),
                t1, NULL)

is_email_verified(self) == self.email_verified_at # NULL

\* mutant: the new account starts active
user_create_active(email, username, password, first_name, last_name, user_id, clk) ==
    [id |-> user_id,
     email |-> email,
     username |-> username,
     password |-> password,
     status |-> "ACTIVE",
     role |-> "USER",
     created_at |-> clk,
     updated_at |-> clk,
     first_name |-> IF truthy(first_name) THEN strip(first_name) ELSE NoneStr,
     last_name |-> IF truthy(last_name) THEN strip(last_name) ELSE NoneStr,
     avatar_url |-> NoneStr,
     last_login_at |-> NULL,
     login_count |-> 0,
     email_verified_at |-> NULL,
     is_newsletter_subscribed |-> TRUE]

\* User.create(email, username, password, first_name, last_name, user_id)
user_create(email, username, password, first_name, last_name, user_id, clk) ==
    [id |-> user_id,
     email |-> email,
     username |-> username,
     password |-> password,
     status |-> "PENDING_VERIFICATION",
     role |-> "USER",
     created_at |-> clk,
     updated_at |-> clk,
     first_name |-> IF truthy(first_name) THEN strip(first_name) ELSE NoneStr,
     last_name |-> IF truthy(last_name) THEN strip(last_name) ELSE NoneStr,
     avatar_url |-> NoneStr,
     last_login_at |-> NULL,
     login_count |-> 0,
     email_verified_at |-> NULL,
     is_newsletter_subscribed |-> TRUE]

\* mutant: the administrator starts with an unverified email
create_admin_unverified(email, username, password, first_name, last_name, user_id, t0, t1) ==
    [user_create(email, username, password, first_name, last_name, user_id, t1)
        EXCEPT !.role = "ADMIN", !.status = "ACTIVE"]

\* User.create_admin(...): t0 is read first and stored in email_verified_at,
\* t1 is the read of User.create
create_admin(email, username, password, first_name, last_name, user_id, t0, t1) ==
    [user_create(email, username, password, first_name, last_name, user_id, t1)
        EXCEPT !.role = "ADMIN", !.status = "ACTIVE", !.email_verified_at = t0]

-----------------------------------------------------------------------------
(* TokenService and TokenConstants: domain/services/auth/token_service.py *)

REFRESH_TOKEN_EXPIRE_DAYS == 30
REMEMBER_ME_EXPIRE_DAYS == 90

\* mutant: remember_me is ignored
get_refresh_token_expire_delta_short(remember_me) == REFRESH_TOKEN_EXPIRE_DAYS

\* get_refresh_token_expire_delta(remember_me), a timedelta in days
get_refresh_token_expire_delta(remember_me) ==
    IF remember_me THEN REMEMBER_ME_EXPIRE_DAYS ELSE REFRESH_TOKEN_EXPIRE_DAYS

\* generate_secure_token(): secrets.token_urlsafe yields a non-empty string
generate_secure_token == Strings \ {<<>>}

\* create_refresh_token(user, device_info, ip, ua, remember_me): abstract in
\* the source; it wraps a generated token in RefreshToken.create with the
\* lifetime of get_refresh_token_expire_delta(remember_me)
create_refresh_token(user_id, token, device_info, ip_address, user_agent, remember_me, clk) ==
    create(user_id, token, get_refresh_token_expire_delta(remember_me),
           device_info, ip_address, user_agent, clk)

\* refresh_access_token(refresh_token_value, stored_refresh_token): abstract
\* in the source; it requires stored.is_valid() and stored.verify_token(value)
refresh_access_token(refresh_token_value, stored, clk) ==
    IF ~is_valid(stored, clk)
    THEN Raise("InvalidTokenError", stored, clk)
    ELSE IF ~verify_token(stored, refresh_token_value)
    THEN Raise("InvalidTokenError", stored, clk)
    ELSE Return(stored, clk, [type |-> "access", sub |-> stored.user_id])

-----------------------------------------------------------------------------
(* Password: domain/value_objects/user/password.py; a plaintext is the
   sequence of its characters *)

LowerLetters ==
    <<"a", "b", "c", "d", "e", "f", "g", "h", "i", "j", "k", "l", "m",
      "n", "o", "p", "q", "r", "s", "t", "u", "v", "w", "x", "y", "z">>

UpperLetters ==
    <<"A", "B", "C", "D", "E", "F", "G", "H", "I", "J", "K", "L", "M",
      "N", "O", "P", "Q", "R", "S", "T", "U", "V", "W", "X", "Y", "Z">>

Digits ==
    <<"0", "1", "2", "3", "4", "5", "6", "7", "8", "9">>

\* the characters of the class [!@#$%^&*(),.?":{}|<>]
SpecialCharacters ==
    <<"!", "@", "#", "$", "%", "^", "&", "*", "(", ")", ",", ".", "?",
      "\"", ":", "{", "}", "|", "<", ">">>

Range(s) == {s[i] : i \in 1..Len(s)}

\* re.search of one character class in the password
has_class(password, class) == \E i \in 1..Len(password) : password[i] \in Range(class)

\* str.lower()
lower(s) ==
    [i \in 1..Len(s) |->
        IF s[i] \in Range(UpperLetters)
        THEN LowerLetters[CHOOSE k \in 1..Len(UpperLetters) : UpperLetters[k] = s[i]]
        ELSE s[i]]

common_passwords ==
    {<<"p", "a", "s", "s", "w", "o", "r", "d">>,
     <<"1", "2", "3", "4", "5", "6", "7", "8">>,
     <<"q", "w", "e", "r", "t", "y", "1", "2", "3">>,
     <<"a", "d", "m", "i", "n", "1", "2", "3">>,
     <<"p", "a", "s", "s", "w", "o", "r", "d", "1", "2", "3">>,
     <<"1", "2", "3", "4", "5", "6", "7", "8", "9">>,
     <<"q", "w", "e", "r", "t", "y", "u", "i", "o", "p">>}

\* the number of True among the four class tests
requirements_met(password) ==
    Cardinality({class \in {LowerLetters, UpperLetters, Digits, SpecialCharacters} :
                    has_class(password, class)})

\* Password._validate_password_strength(password); len(set(password)) <
\* len(password) * 0.5 is compared in halves
_validate_password_strength(password) ==
    IF password = <<>>
    THEN Raise("WeakPasswordError", password, NULL)
    ELSE IF Len(password) < 8
    THEN Raise("WeakPasswordError", password, NULL)
    ELSE IF Len(password) > 128
    THEN Raise("WeakPasswordError", password, NULL)
    ELSE IF requirements_met(password) < 3
    THEN Raise("WeakPasswordError", password, NULL)
    ELSE IF lower(password) \in common_passwords
    THEN Raise("WeakPasswordError", password, NULL)
    ELSE IF 2 * Cardinality(Range(password)) < Len(password)
    THEN Raise("WeakPasswordError", password, NULL)
    ELSE Return(password, NULL, NULL)

\* the password bytes bcrypt works on: it uses 72 bytes and no more
BCRYPT_MAX_BYTES == 72

\* bcrypt.hashpw(password, salt): the hash is a one-way function of the salt
\* and of the first 72 bytes; releases before 5.0 drop the other bytes
\* silently (truncates), later ones raise ValueError for a longer password
hashpw(password, salt, truncates) ==
    IF Len(password) > BCRYPT_MAX_BYTES /\ ~truncates
    THEN Raise("ValueError", password, NULL)
    ELSE Return(password, NULL,
                [salt |-> salt,
                 digest |-> IF Len(password) > BCRYPT_MAX_BYTES
                            THEN SubSeq(password, 1, BCRYPT_MAX_BYTES)
                            ELSE password])

\* bcrypt.checkpw(password, hashed_password): hashes the password with the
\* salt of the hash and compares
checkpw(password, hashed_password, truncates) ==
    LET again == hashpw(password, hashed_password.salt, truncates)
    IN  IF again.ok THEN Return(password, NULL, again.ret = hashed_password) ELSE again

\* Password._hash_password(password) with the salt of bcrypt.gensalt()
_hash_password(password, salt, truncates) == hashpw(password, salt, truncates)

\* Password.from_plain_text(plain_password)
from_plain_text(plain_password, salt, truncates) ==
    LET checked == _validate_password_strength(plain_password)
        hashed == _hash_password(plain_password, salt, truncates)
    IN  IF ~checked.ok THEN checked
        ELSE IF ~hashed.ok THEN hashed
        ELSE Return(plain_password, NULL, [hashed_value |-> hashed.ret])

\* Password.verify(plain_password): any exception of checkpw gives False
verify(self, plain_password, truncates) ==
    IF plain_password = <<>>
    THEN FALSE
    ELSE LET checked == checkpw(plain_password, self.hashed_value, truncates)
         IN  IF checked.ok THEN checked.ret ELSE FALSE

-----------------------------------------------------------------------------
(* Username: domain/value_objects/user/username.py; a value is the sequence
   of its characters *)

\* the characters of the class [a-zA-Z0-9_-]
UsernameCharacters == LowerLetters \o UpperLetters \o Digits \o <<"_", "-">>

\* re.match(r"^[class]+$", value): one or more characters of the class up to
\* the end of the string; $ also matches just before a newline that ends the
\* string
re_match_class(class, value) ==
    LET n == Len(value)
        body == IF n > 0 /\ value[n] = "\n" THEN SubSeq(value, 1, n - 1) ELSE value
        whole(s) == s # <<>> /\ \A i \in 1..Len(s) : s[i] \in Range(class)
    IN  whole(value) \/ whole(body)

forbidden_usernames ==
    {<<"a", "d", "m", "i", "n">>,
     <<"a", "d", "m", "i", "n", "i", "s", "t", "r", "a", "t", "o", "r">>,
     <<"r", "o", "o", "t">>,
     <<"a", "p", "i">>,
     <<"w", "w", "w">>,
     <<"f", "t", "p">>,
     <<"m", "a", "i", "l">>,
     <<"s", "u", "p", "p", "o", "r", "t">>,
     <<"h", "e", "l", "p">>,
     <<"i", "n", "f", "o">>,
     <<"c", "o", "n", "t", "a", "c", "t">>,
     <<"s", "a", "l", "e", "s">>,
     <<"s", "e", "r", "v", "i", "c", "e">>,
     <<"t", "e", "s", "t">>,
     <<"d", "e", "m", "o">>,
     <<"g", "u", "e", "s", "t">>,
     <<"a", "n", "o", "n", "y", "m", "o", "u", "s">>,
     <<"n", "u", "l", "l">>,
     <<"u", "n", "d", "e", "f", "i", "n", "e", "d">>}

\* Username(value): __post_init__ raises or the object exists
Username(value) ==
    IF value = <<>>
    THEN Raise("InvalidUsernameError", value, NULL)
    ELSE IF Len(value) < 3
    THEN Raise("InvalidUsernameError", value, NULL)
    ELSE IF Len(value) > 30
    THEN Raise("InvalidUsernameError", value, NULL)
    ELSE IF ~re_match_class(UsernameCharacters, value)
    THEN Raise("InvalidUsernameError", value, NULL)
    ELSE IF value[1] \in {"_", "-"} \/ value[Len(value)] \in {"_", "-"}
    THEN Raise("InvalidUsernameError", value, NULL)
    ELSE IF lower(value) \in forbidden_usernames
    THEN Raise("InvalidUsernameError", value, NULL)
    ELSE Return(value, NULL, [value |-> value])

-----------------------------------------------------------------------------
(* Email: domain/value_objects/user/email.py; a value is the sequence of its
   characters *)

\* the characters of the classes [a-zA-Z0-9._%+-], [a-zA-Z0-9.-] and [a-zA-Z]
EmailLocalCharacters == LowerLetters \o UpperLetters \o Digits \o <<".", "_", "%", "+", "-">>
EmailDomainCharacters == LowerLetters \o UpperLetters \o Digits \o <<".", "-">>
Letters == LowerLetters \o UpperLetters

\* re.match(email_pattern, value) with email_pattern
\* ^[a-zA-Z0-9._%+-]+@[a-zA-Z0-9.-]+\.[a-zA-Z]{2,}$ : the "@" at a, the "."
\* before the last group at d; $ also matches just before a newline that
\* ends the string
email_pattern(value) ==
    LET n == Len(value)
        body == IF n > 0 /\ value[n] = "\n" THEN SubSeq(value, 1, n - 1) ELSE value
        whole(s) ==
            \E a \in 2..Len(s) :
                /\ s[a] = "@"
                /\ \A i \in 1..(a - 1) : s[i] \in Range(EmailLocalCharacters)
                /\ \E d \in (a + 2)..(Len(s) - 2) :
                      /\ s[d] = "."
                      /\ \A i \in (a + 1)..(d - 1) : s[i] \in Range(EmailDomainCharacters)
                      /\ \A i \in (d + 1)..Len(s) : s[i] \in Range(Letters)
    IN  whole(value) \/ whole(body)

\* value.split("@"): the pieces between the "@" characters, in order
split_at(value) ==
    LET ats == {i \in 1..Len(value) : value[i] = "@"}
        ends == ats \cup {Len(value) + 1}
        piece(from) == SubSeq(value, from, (CHOOSE e \in ends : e >= from /\ \A x \in ends : x >= from => e <= x) - 1)
        starts == {1} \cup {i + 1 : i \in ats}
        nth[k \in 1..Cardinality(starts)] ==
            CHOOSE b \in starts : Cardinality({x \in starts : x < b}) = k - 1
    IN  [k \in 1..Cardinality(starts) |-> piece(nth[k])]

\* Email(value): __post_init__ raises or the object exists
Email(value) ==
    IF value = <<>>
    THEN Raise("InvalidEmailError", value, NULL)
    ELSE IF ~email_pattern(value)
    THEN Raise("InvalidEmailError", value, NULL)
    ELSE IF Len(value) > 254
    THEN Raise("InvalidEmailError", value, NULL)
    ELSE IF Len(split_at(value)[1]) > 64
    THEN Raise("InvalidEmailError", value, NULL)
    ELSE Return(value, NULL, [value |-> value])

\* Email.domain
domain(self) == split_at(self.value)[2]

-----------------------------------------------------------------------------
(* Value objects as strings, and TokenData: token_service.py, user_id.py *)

\* str(UserId): str(UUID), the canonical lower-case text of the identifier
str_UserId(user_id) ==
    CASE user_id = "u1" -> "aaaaaaaa-aaaa-aaaa-aaaa-aaaaaaaaaaa1"
      [] user_id = "u2" -> "aaaaaaaa-aaaa-aaaa-aaaa-aaaaaaaaaaa2"

\* UUID(id_str) accepts the canonical text and also upper-case and braced
\* spellings; any other string is a ValueError
UuidTexts ==
    [x \in {"aaaaaaaa-aaaa-aaaa-aaaa-aaaaaaaaaaa1",
            "AAAAAAAA-AAAA-AAAA-AAAA-AAAAAAAAAAA1",
            "{aaaaaaaa-aaaa-aaaa-aaaa-aaaaaaaaaaa1}"} |-> "u1"]
    @@ [x \in {"aaaaaaaa-aaaa-aaaa-aaaa-aaaaaaaaaaa2"} |-> "u2"]

\* UserId.from_string(id_str)
from_string(id_str) ==
    IF id_str \in DOMAIN UuidTexts
    THEN Return(id_str, NULL, UuidTexts[id_str])
    ELSE Raise("DomainValidationError", id_str, NULL)

\* str(Email): value.lower()
str_Email(email) == IF email = "C@d.com" THEN "c@d.com" ELSE email

\* str(Username): the value itself
str_Username(username) == username

\* UserRole.value
role_value(role) ==
    CASE role = "USER" -> "user"
      [] role = "MODERATOR" -> "moderator"
      [] role = "ADMIN" -> "admin"

\* additional_claims or {}: the empty dictionary
EmptyClaims == [k \in {} |-> ""]

\* TokenData.from_user(user, additional_claims)
from_user(u, additional_claims) ==
    [user_id |-> u.id,
     username |-> str_Username(u.username),
     email |-> str_Email(u.email),
     role |-> role_value(u.role),
     is_email_verified |-> is_email_verified(u),
     additional_claims |-> additional_claims]

\* TokenData.to_claims(): dict.update lets an additional claim replace a
\* claim of the same key
to_claims(self) ==
    self.additional_claims @@
    [sub |-> str_UserId(self.user_id),
     username |-> self.username,
     email |-> self.email,
     role |-> self.role,
     email_verified |-> self.is_email_verified,
     type |-> "access"]

\* access tokens presented to the service: well signed and current with a
\* sub claim that is canonical, upper-case, missing, empty or not a UUID; past
\* their expiry; with a bad signature; and one the decoder fails on otherwise
AccessTokens ==
    {"jwt.sub", "jwt.SUB", "jwt.nosub", "jwt.emptysub", "jwt.badsub",
     "jwt.expired", "jwt.badsignature", "jwt.fault"}

\* the claims a well signed, current token carries
decode(token) ==
    CASE token = "jwt.sub" ->
           [sub |-> "aaaaaaaa-aaaa-aaaa-aaaa-aaaaaaaaaaa1", type |-> "access"]
      [] token = "jwt.SUB" ->
           [sub |-> "AAAAAAAA-AAAA-AAAA-AAAA-AAAAAAAAAAA1", type |-> "access"]
      [] token = "jwt.nosub" -> [type |-> "access"]
      [] token = "jwt.emptysub" -> [sub |-> "", type |-> "access"]
      [] token = "jwt.badsub" -> [sub |-> "not-a-uuid", type |-> "access"]

\* verify_access_token(token): abstract in the source; it returns the claims
\* or raises InvalidTokenError or TokenExpiredError, and an implementation's
\* decoder may fail with some other exception
verify_access_token(token) ==
    CASE token = "jwt.expired" -> Raise("TokenExpiredError", token, NULL)
      [] token = "jwt.badsignature" -> Raise("InvalidTokenError", token, NULL)
      [] token = "jwt.fault" -> Raise("Exception", token, NULL)
      [] OTHER -> Return(token, NULL, decode(token))

\* the try block of extract_user_id_from_token: payload.get("sub") is None
\* for a missing claim, and `not user_id_str` holds for None and for ""
extract_user_id_try(token) ==
    LET payload == verify_access_token(token)
    IN  IF ~payload.ok
        THEN payload
        ELSE IF "sub" \notin DOMAIN payload.ret \/ payload.ret.sub = ""
        THEN Raise("InvalidTokenError", token, NULL)
        ELSE from_string(payload.ret.sub)

\* mutant: there is no except clause
extract_user_id_from_token_unwrapped(token) == extract_user_id_try(token)

\* mutant: the except clause lets TokenExpiredError through
extract_user_id_from_token_passes_expiry(token) ==
    LET r == extract_user_id_try(token)
    IN  IF r.ok \/ r.err = "TokenExpiredError"
        THEN r
        ELSE Raise("InvalidTokenError", token, NULL)

\* extract_user_id_from_token(token): `except Exception` turns every failure
\* of the try block into InvalidTokenError
extract_user_id_from_token(token) ==
    LET r == extract_user_id_try(token)
    IN  IF r.ok THEN r ELSE Raise("InvalidTokenError", token, NULL)

-----------------------------------------------------------------------------
(* Commands and results: application/commands/auth/auth_commands.py; the
   handlers are not in the repository and follow section 4.6 of the
   specification: load, call the aggregate or the service, save, return *)

\* mutant: the lifetime is given in minutes
AuthTokenResult_in_minutes(access_token, refresh_token) ==
    [access_token |-> access_token, refresh_token |-> refresh_token,
     token_type |-> "Bearer", expires_in |-> 60, refresh_expires_in |-> 2592000]

\* AuthTokenResult(access_token, refresh_token) with the defaults of its fields
AuthTokenResult(access_token, refresh_token) ==
    [access_token |-> access_token, refresh_token |-> refresh_token,
     token_type |-> "Bearer", expires_in |-> 3600, refresh_expires_in |-> 2592000]

\* create_access_token(user): abstract in the source; the signed token that
\* carries the claims of the user
create_access_token(u) == "jwt.sub"

\* mutant: the aggregate is saved whether the command succeeded or not
save_always(stored, r) == r.self

\* the aggregate in the repository after a command with outcome r: save is
\* called only after every call of the command succeeded
save(stored, r) == IF r.ok THEN r.self ELSE stored

\* LoginUserCommand: the credentials are checked, the login is recorded on
\* the user (whose status guard refuses an account that is not active), the
\* tokens are issued and the result is returned; a refusal is reported as
\* AuthenticationError
handle_LoginUserCommand(u, credentials_ok, remember_me, token, t1, t2) ==
    IF ~credentials_ok
    THEN Raise("AuthenticationError", u, t1)
    ELSE LET logged == record_login(u, t1, t2)
             issued == create_refresh_token(u.id, token, "dev", "ip", "ua",
                                            remember_me, t2)
         IN  IF ~logged.ok
             THEN Raise("AuthenticationError", logged.self, logged.clk)
             ELSE IF ~issued.ok
             THEN Raise(issued.err, logged.self, issued.clk)
             ELSE Return(logged.self, issued.clk,
                         [tokens |-> AuthTokenResult(create_access_token(logged.self), token),
                          entity |-> issued.ret])

-----------------------------------------------------------------------------
(* Initial state *)

Init ==
    /\ now = 0
    /\ tok = NoToken
    /\ plain = <<>>
    /\ user = NoUser
    /\ res = Res("init", Return(NoToken, 0, NULL))

-----------------------------------------------------------------------------
(* Actions on the RefreshToken *)

Tick ==
    /\ now < MaxNow
    /\ now' = now + 1
    /\ res' = Res("tick", Return(tok, now + 1, NULL))
    /\ UNCHANGED <<tok, plain, user>>

\* a factory call: on success the entity exists, on failure none is produced
Constructed(token, r, rs) ==
    /\ tok' = IF r.ok THEN r.ret ELSE tok
    /\ plain' = IF r.ok THEN token ELSE plain
    /\ res' = [rs EXCEPT !.token = token,
                         !.out = IF r.ok THEN r.ret.id ELSE "none"]
    /\ now' = r.clk
    /\ UNCHANGED user

Create ==
    /\ tok = NoToken
    /\ \E token \in Strings, days \in DaysInputs :
         LET r == create(UserIdValue, token, days, "dev", "ip", "ua", now)
         IN  Constructed(token, r, [Res("create", r) EXCEPT !.days = days])

CreateLongLived ==
    /\ tok = NoToken
    /\ \E token \in Strings :
         LET r == create_long_lived(UserIdValue, token, "dev", "ip", "ua", now)
         IN  Constructed(token, r, Res("create_long_lived", r))

CreateRefreshToken ==
    /\ tok = NoToken
    /\ \E token \in generate_secure_token, remember_me \in BOOLEAN :
         LET r == create_refresh_token(UserIdValue, token, "dev", "ip", "ua",
                                       remember_me, now)
         IN  Constructed(token, r,
                         [Res("create_refresh_token", r) EXCEPT !.flag = remember_me])

\* a method call on the entity
Called(r, rs) ==
    /\ tok' = r.self
    /\ res' = rs
    /\ now' = r.clk
    /\ UNCHANGED <<plain, user>>

IsValid ==
    /\ tok # NoToken
    /\ LET r == Return(tok, now, is_valid(tok, now))
       IN  Called(r, [Res("is_valid", r) EXCEPT !.ret = r.ret])

Use ==
    /\ tok # NoToken
    /\ \E t2 \in Reads(now) :
         LET r == use(tok, now, t2) IN Called(r, Res("use", r))

Revoke ==
    /\ tok # NoToken
    /\ LET r == revoke(tok, now) IN Called(r, Res("revoke", r))

VerifyToken ==
    /\ tok # NoToken
    /\ \E token \in Strings :
         LET r == Return(tok, now, verify_token(tok, token))
         IN  Called(r, [Res("verify_token", r) EXCEPT !.token = token, !.ret = r.ret])

ExtendExpiry ==
    /\ tok # NoToken
    /\ \E days \in DaysInputs, t2 \in Reads(now) :
         LET r == extend_expiry(tok, days, now, t2)
         IN  Called(r, [Res("extend_expiry", r) EXCEPT !.days = days])

RefreshAccessToken ==
    /\ tok # NoToken
    /\ \E token \in Strings :
         LET r == refresh_access_token(token, tok, now)
         IN  Called(r, [Res("refresh_access_token", r) EXCEPT
                           !.token = token,
                           !.out = IF r.ok THEN r.ret.type ELSE "none"])

Next ==
    \/ Tick
    \/ Create
    \/ CreateLongLived
    \/ CreateRefreshToken
    \/ IsValid
    \/ Use
    \/ Revoke
    \/ VerifyToken
    \/ ExtendExpiry
    \/ RefreshAccessToken

Spec == Init /\ [][Next]_vars

-----------------------------------------------------------------------------
(* Inputs of the User operations *)

\* Email values; the second has an upper-case letter, which str() folds
Emails == {"a@b.com", "C@d.com"}
Usernames == {"newuser1", "valid_user-1"}
Passwords == {"hash1", "hash2"}

\* first_name / last_name arguments: None, " ", 50 characters between two
\* blanks, 51 characters
NameInputs == {NoneStr, Str(1, 0, 0), Str(1, 50, 1), Str(0, 51, 0)}

\* avatar_url arguments: None, "", 500 characters, 501 characters
UrlInputs == {NoneStr, Str(0, 0, 0), Str(0, 500, 0), Str(0, 501, 0)}

\* the registration of the end-to-end scenario, without profile names
PlainNames == {NoneStr}

-----------------------------------------------------------------------------
(* Actions on the User *)

\* a method call on the user
UserCalled(r, rs) ==
    /\ user' = r.self
    /\ res' = rs
    /\ now' = r.clk
    /\ UNCHANGED <<tok, plain>>

\* User.create with the names drawn from `names`
CreateUser(usernames, passwords, names) ==
    /\ user = NoUser
    /\ \E email \in Emails, username \in usernames, password \in passwords,
          first_name \in names, last_name \in names :
         /\ user' = user_create(email, username, password, first_name, last_name,
                                UserIdValue, now)
         /\ res' = [Res("user_create", Return(NoUser, now, NULL)) EXCEPT
                       !.out = UserIdValue]
    /\ UNCHANGED <<now, tok, plain>>

CreateAdmin ==
    /\ user = NoUser
    /\ \E email \in Emails, t1 \in Reads(now) :
         /\ user' = create_admin(email, "newuser1", "hash1", NoneStr, NoneStr,
                                 UserIdValue, now, t1)
         /\ res' = [Res("create_admin", Return(NoUser, t1, NULL)) EXCEPT
                       !.out = UserIdValue]
         /\ now' = t1
    /\ UNCHANGED <<tok, plain>>

Activate ==
    /\ user # NoUser
    /\ LET r == activate(user, now) IN UserCalled(r, Res("activate", r))

Suspend ==
    /\ user # NoUser
    /\ LET r == suspend(user, now) IN UserCalled(r, Res("suspend", r))

Deactivate ==
    /\ user # NoUser
    /\ LET r == deactivate(user, now) IN UserCalled(r, Res("deactivate", r))

VerifyEmail ==
    /\ user # NoUser
    /\ \E t2 \in Reads(now) :
         LET r == verify_email(user, now, t2) IN UserCalled(r, Res("verify_email", r))

ChangePassword ==
    /\ user # NoUser
    /\ \E new_password \in Passwords :
         LET r == change_password(user, new_password, now)
         IN  UserCalled(r, [Res("change_password", r) EXCEPT !.text = new_password])

ChangeEmail ==
    /\ user # NoUser
    /\ \E new_email \in Emails :
         LET r == change_email(user, new_email, now)
         IN  UserCalled(r, [Res("change_email", r) EXCEPT !.text = new_email])

ChangeUsername ==
    /\ user # NoUser
    /\ \E new_username \in Usernames :
         LET r == change_username(user, new_username, now)
         IN  UserCalled(r, [Res("change_username", r) EXCEPT !.text = new_username])

UpdateProfile ==
    /\ user # NoUser
    /\ \E first_name \in NameInputs, last_name \in NameInputs, avatar_url \in UrlInputs :
         LET r == update_profile(user, first_name, last_name, avatar_url, now)
         IN  UserCalled(r, Res("update_profile", r))

RecordLogin ==
    /\ user # NoUser
    /\ user.login_count < MaxLogins
    /\ \E t2 \in Reads(now) :
         LET r == record_login(user, now, t2) IN UserCalled(r, Res("record_login", r))

PromoteToModerator ==
    /\ user # NoUser
    /\ LET r == promote_to_moderator(user, now) IN UserCalled(r, Res("promote_to_moderator", r))

PromoteToAdmin ==
    /\ user # NoUser
    /\ LET r == promote_to_admin(user, now) IN UserCalled(r, Res("promote_to_admin", r))

DemoteToUser ==
    /\ user # NoUser
    /\ LET r == demote_to_user(user, now) IN UserCalled(r, Res("demote_to_user", r))

SubscribeToNewsletter ==
    /\ user # NoUser
    /\ LET r == subscribe_to_newsletter(user, now) IN UserCalled(r, Res("subscribe_to_newsletter", r))

UnsubscribeFromNewsletter ==
    /\ user # NoUser
    /\ LET r == unsubscribe_from_newsletter(user, now) IN UserCalled(r, Res("unsubscribe_from_newsletter", r))

\* the account life cycle: status, role, email and login operations
NextUser ==
    \/ Tick
    \/ CreateUser({"newuser1"}, {"hash1"}, PlainNames)
    \/ CreateAdmin
    \/ Activate
    \/ Suspend
    \/ Deactivate
    \/ VerifyEmail
    \/ ChangeEmail
    \/ RecordLogin
    \/ PromoteToModerator
    \/ PromoteToAdmin
    \/ DemoteToUser

SpecUser == Init /\ [][NextUser]_vars

\* the profile: names, avatar, username, password and newsletter operations
NextProfile ==
    \/ Tick
    \/ CreateUser({"newuser1"}, {"hash1"}, NameInputs)
    \/ UpdateProfile
    \/ ChangeUsername
    \/ ChangePassword
    \/ SubscribeToNewsletter
    \/ UnsubscribeFromNewsletter

SpecProfile == Init /\ [][NextProfile]_vars

-----------------------------------------------------------------------------
(* Actions on access tokens and their claims *)

\* additional_claims arguments: none, a key of the caller's own, and keys
\* that the claim set uses itself
ExtraClaims ==
    {EmptyClaims,
     [tenant |-> "t1"],
     [sub |-> "aaaaaaaa-aaaa-aaaa-aaaa-aaaaaaaaaaa2"],
     [type |-> "refresh"],
     [role |-> "admin", tenant |-> "t1"]}

\* TokenData.from_user(user, additional_claims).to_claims()
ToClaims ==
    /\ user # NoUser
    /\ \E additional_claims \in ExtraClaims :
         res' = [Res("to_claims", Return(user, now, NULL)) EXCEPT
                    !.claims = to_claims(from_user(user, additional_claims))]
    /\ UNCHANGED <<now, tok, plain, user>>

VerifyAccessToken ==
    /\ \E token \in AccessTokens :
         LET r == verify_access_token(token)
         IN  res' = [Res("verify_access_token", r) EXCEPT
                        !.text = token,
                        !.claims = IF r.ok THEN r.ret ELSE NoClaims]
    /\ UNCHANGED <<now, tok, plain, user>>

ExtractUserIdFromToken ==
    /\ \E token \in AccessTokens :
         LET r == extract_user_id_from_token(token)
         IN  res' = [Res("extract_user_id_from_token", r) EXCEPT
                        !.text = token,
                        !.out = IF r.ok THEN r.ret ELSE "none"]
    /\ UNCHANGED <<now, tok, plain, user>>

\* access tokens and claim sets for a user whose email, verification and role
\* change
NextAccess ==
    \/ CreateUser({"newuser1"}, {"hash1"}, PlainNames)
    \/ CreateAdmin
    \/ VerifyEmail
    \/ ChangeEmail
    \/ PromoteToModerator
    \/ DemoteToUser
    \/ ToClaims
    \/ VerifyAccessToken
    \/ ExtractUserIdFromToken

SpecAccess == Init /\ [][NextAccess]_vars

-----------------------------------------------------------------------------
(* Construction of the value objects *)

\* a plaintext of n characters, at least half of them distinct, of three
\* character classes, ending in the character last
LongPassword(n, last) ==
    LET pool == LowerLetters \o UpperLetters \o Digits \o <<"!", "@">>
    IN  [i \in 1..n |-> IF i = n THEN last ELSE pool[((i - 1) % Len(pool)) + 1]]

PW1 == <<"S", "t", "r", "0", "n", "g", "!", "P", "a", "s", "s">>
PW3 == <<"A", "b", "1", "!", "x", "y", "z">>
PW4 == <<"A", "b", "c", "d", "e", "f", "1", "!">>
PW5 == <<"a", "b", "c", "d", "e", "f", "g", "h", "1">>
PW6 == <<"P", "a", "s", "s", "w", "o", "r", "d", "1", "2", "3">>
PW7 == <<"p", "a", "s", "s", "w", "o", "r", "d", "1", "2", "3">>
PW8 == <<"A", "a", "1", "A", "a", "1", "A", "a", "1">>
PW9 == <<"A", "a", "1", "!", "A", "a", "1", "!">>

\* plaintext passwords: the one of the end-to-end scenario; empty; 7
\* characters; 8 characters; two classes; in the denylist in lower case and
\* as written; a third and a half of the characters distinct; 72 characters;
\* 73 characters twice with the first 72 in common; 128 and 129 characters
PlainPasswords ==
    {PW1, <<>>, PW3, PW4, PW5, PW6, PW7, PW8, PW9,
     LongPassword(72, "x"), LongPassword(73, "x"), LongPassword(73, "y"),
     LongPassword(128, "x"), LongPassword(129, "x")}

\* the plaintexts a password is verified against
Attempts ==
    {<<>>, PW1, PW4, LongPassword(72, "x"), LongPassword(73, "x"),
     LongPassword(73, "y")}

\* the salts of bcrypt.gensalt()
Salts == {"salt1", "salt2"}

\* Password.from_plain_text(plain_password)
FromPlainText ==
    /\ \E plain_password \in PlainPasswords, salt \in Salts, truncates \in BOOLEAN :
         LET r == from_plain_text(plain_password, salt, truncates)
         IN  res' = [Res("from_plain_text", r) EXCEPT !.token = plain_password]
    /\ UNCHANGED <<now, tok, plain, user>>

\* Password.from_plain_text(plain_password).verify(attempt)
FromPlainTextVerify ==
    /\ \E plain_password \in PlainPasswords, attempt \in Attempts,
          salt \in Salts, truncates \in BOOLEAN :
         LET r == from_plain_text(plain_password, salt, truncates)
         IN  res' = [Res("from_plain_text.verify", r) EXCEPT
                        !.token = plain_password,
                        !.against = attempt,
                        !.ret = IF r.ok THEN verify(r.ret, attempt, truncates) ELSE FALSE]
    /\ UNCHANGED <<now, tok, plain, user>>

\* n times the character c
Repeat(c, n) == [i \in 1..n |-> c]

\* the values a Username is constructed from: empty, too short, of 3, 30 and
\* 31 characters, reserved in lower and in mixed case, with "_" or "-" at an
\* end, with a character outside the class, with a newline at the end
UsernameValues ==
    {<<>>,
     <<"a", "b">>,
     <<"a", "_">>,
     <<"a", "b", "c">>,
     <<"a", "d", "m", "i", "n">>,
     <<"A", "d", "m", "i", "n">>,
     <<"r", "o", "o", "t">>,
     <<"v", "a", "l", "i", "d", "_", "u", "s", "e", "r", "-", "1">>,
     <<"_", "a", "b">>,
     <<"a", "b", "-">>,
     <<"-", "a", "b">>,
     <<"a", " ", "b">>,
     <<"a", ".", "b">>,
     <<"a", "b", "c", "\n">>,
     <<"a", "d", "m", "i", "n", "\n">>,
     <<"a", "b", "\n">>,
     Repeat("a", 30),
     Repeat("a", 31),
     Repeat("a", 30) \o <<"\n">>}

\* Username(value)
NewUsername ==
    /\ \E value \in UsernameValues :
         res' = [Res("Username", Username(value)) EXCEPT !.token = value]
    /\ UNCHANGED <<now, tok, plain, user>>

\* the values an Email is constructed from: empty, without "@", with two,
\* with an empty local part, with a last group of one letter, with a
\* character outside the classes, with a newline at the end, with a local
\* part of 64 and of 65 characters, of 254 and of 255 characters
EmailValues ==
    {<<>>,
     <<"u", "s", "e", "r", "@", "e", "x", "a", "m", "p", "l", "e", ".", "c", "o", "m">>,
     <<"n", "o", "t", "-", "a", "n", "-", "e", "m", "a", "i", "l">>,
     <<"U", "s", "e", "r", "@", "E", "x", "a", "m", "p", "l", "e", ".", "C", "O", "M">>,
     <<"a", "@", "b", ".", "c">>,
     <<"a", "@", "b", ".", "c", "o">>,
     <<"@", "b", ".", "c", "o", "m">>,
     <<"a", "@", ".", "c", "o", "m">>,
     <<"a", "@", "b", "@", "c", ".", "c", "o", "m">>,
     <<"a", " ", "b", "@", "c", ".", "c", "o", "m">>,
     <<"a", "@", "b", ".", "c", "0", "m">>,
     <<"a", "@", "b", ".", "c", "o", "m", "\n">>,
     <<"a", "@", "b", ".", "c", "o", "m", "\n", "\n">>,
     <<"a", "+", "b", "@", "c", "-", "d", ".", "e", ".", "o", "r", "g">>,
     Repeat("a", 64) \o <<"@", "b", ".", "c", "o", "m">>,
     Repeat("a", 65) \o <<"@", "b", ".", "c", "o", "m">>,
     Repeat("a", 64) \o <<"@">> \o Repeat("b", 185) \o <<".", "c", "o", "m">>,
     Repeat("a", 64) \o <<"@">> \o Repeat("b", 186) \o <<".", "c", "o", "m">>}

\* Email(value), and the domain of the Email constructed
NewEmail ==
    /\ \E value \in EmailValues :
         LET r == Email(value)
         IN  res' = [Res("Email", r) EXCEPT
                        !.token = value,
                        !.domain = IF r.ok THEN domain(r.ret) ELSE <<>>]
    /\ UNCHANGED <<now, tok, plain, user>>

NextValues ==
    \/ FromPlainText
    \/ FromPlainTextVerify
    \/ NewUsername
    \/ NewEmail

SpecValues == Init /\ [][NextValues]_vars

-----------------------------------------------------------------------------
(* Commands: user and tok are the aggregates in the repositories *)

\* profile arguments of UpdateProfileCommand: a first name of 50 or of 51
\* characters, no last name or one of 51 characters, no avatar or one of 501
CommandFirstNames == {Str(1, 50, 1), Str(0, 51, 0)}
CommandLastNames == {NoneStr, Str(0, 51, 0)}
CommandUrls == {NoneStr, Str(0, 501, 0)}

\* a command on the stored user with outcome r
UserCommand(r, rs) ==
    /\ user' = save(user, r)
    /\ res' = [rs EXCEPT !.dirty = (r.self # user)]
    /\ now' = r.clk
    /\ UNCHANGED <<tok, plain>>

\* a command on the stored refresh token with outcome r
TokenCommand(r, rs) ==
    /\ tok' = save(tok, r)
    /\ res' = [rs EXCEPT !.dirty = (r.self # tok)]
    /\ now' = r.clk
    /\ UNCHANGED <<plain, user>>

LoginUserCommand ==
    /\ user # NoUser
    /\ user.login_count < MaxLogins
    /\ \E credentials_ok \in BOOLEAN, token \in generate_secure_token,
          t2 \in Reads(now) :
         LET r == handle_LoginUserCommand(user, credentials_ok, FALSE, token, now, t2)
         IN  /\ user' = save(user, r)
             /\ tok' = IF r.ok THEN r.ret.entity ELSE tok
             /\ plain' = IF r.ok THEN token ELSE plain
             /\ res' = [Res("LoginUserCommand", r) EXCEPT
                           !.flag = credentials_ok,
                           !.dirty = (r.self # user),
                           !.text = IF r.ok THEN r.ret.tokens.access_token ELSE "",
                           !.token = IF r.ok THEN r.ret.tokens.refresh_token ELSE <<>>,
                           !.expires_in = IF r.ok THEN r.ret.tokens.expires_in ELSE NULL,
                           !.out = IF r.ok THEN r.ret.entity.id ELSE "none"]
             /\ now' = r.clk

VerifyEmailCommand ==
    /\ user # NoUser
    /\ \E t2 \in Reads(now) :
         LET r == verify_email(user, now, t2)
         IN  UserCommand(r, Res("VerifyEmailCommand", r))

UpdateProfileCommand ==
    /\ user # NoUser
    /\ \E first_name \in CommandFirstNames, last_name \in CommandLastNames,
          avatar_url \in CommandUrls :
         LET r == update_profile(user, first_name, last_name, avatar_url, now)
         IN  UserCommand(r, Res("UpdateProfileCommand", r))

ChangeEmailCommand ==
    /\ user # NoUser
    /\ \E new_email \in Emails :
         LET r == change_email(user, new_email, now)
         IN  UserCommand(r, [Res("ChangeEmailCommand", r) EXCEPT !.text = new_email])

RevokeTokenCommand ==
    /\ tok # NoToken
    /\ LET r == revoke(tok, now) IN TokenCommand(r, Res("RevokeTokenCommand", r))

\* the commands of the end-to-end scenario and those whose aggregate call
\* can fail
NextCommands ==
    \/ CreateUser({"newuser1"}, {"hash1"}, PlainNames)
    \/ LoginUserCommand
    \/ VerifyEmailCommand
    \/ UpdateProfileCommand
    \/ ChangeEmailCommand
    \/ RevokeTokenCommand

SpecCommands == Init /\ [][NextCommands]_vars

-----------------------------------------------------------------------------
(* Properties of the RefreshToken and of the TokenService *)

\* every clock value at which a token of the model can still be unexpired
ClockValues == 0..(MaxNow + 91)

\* the validity condition as the specification words it
NotRevokedAndUnexpired(t, clk) == t.is_revoked = FALSE /\ t.expires_at > clk

TokenFactories == {"create", "create_long_lived", "create_refresh_token"}

\* C1: in every reachable state of a RefreshToken and at every clock value
\* now, is_valid() returns true if and only if is_revoked is false and
\* expires_at > now; a token whose expires_at equals now is not valid.
C1_IsValidIffNotRevokedAndUnexpired ==
    tok # NoToken =>
        /\ \A clk \in ClockValues :
               is_valid(tok, clk) <=> NotRevokedAndUnexpired(tok, clk)
        /\ ~is_valid(tok, tok.expires_at)
        /\ res.op = "is_valid" => (res.ret <=> NotRevokedAndUnexpired(tok, now))

\* is_valid() was called, on a token that is not revoked, at the instant the
\* token expires
C1_Witness ==
    /\ tok # NoToken
    /\ res.op = "is_valid"
    /\ res.ret = FALSE
    /\ ~tok.is_revoked
    /\ tok.expires_at = now

\* C2: refresh_access_token(presented, stored) returns a new access token
\* only when the stored token is valid and the presented value matches its
\* hash; on a revoked stored token it fails with InvalidTokenError whether or
\* not the presented value matches.
C2_RefreshRequiresValidMatchingToken ==
    res.op = "refresh_access_token" =>
        /\ res.ok => /\ NotRevokedAndUnexpired(tok, now)
                     /\ verify_token(tok, res.token)
                     /\ res.out = "access"
        /\ tok.is_revoked => (~res.ok /\ res.err = "InvalidTokenError")
        /\ ~res.ok => res.err = "InvalidTokenError"

\* the matching plaintext was presented for a revoked, unexpired token and
\* the refresh failed
C2_Witness ==
    /\ res.op = "refresh_access_token"
    /\ ~res.ok
    /\ tok.is_revoked
    /\ tok.expires_at > now
    /\ res.token = plain
    /\ verify_token(tok, res.token)

UserMutators ==
    {"activate", "suspend", "deactivate", "verify_email", "change_email",
     "change_username", "update_profile", "record_login",
     "promote_to_moderator", "promote_to_admin", "demote_to_user"}

TokenMutators == {"use", "revoke", "extend_expiry"}

\* C3: validate-then-commit: when a mutating operation of the User or of the
\* RefreshToken fails with an error, every field of the aggregate, updated_at
\* included, keeps the value it had before the call.
C3_FailedCallChangesNothing ==
    [][(res'.op \in UserMutators \cup TokenMutators /\ ~res'.ok)
          => (user' = user /\ tok' = tok)]_vars

\* C4: REVOKED is terminal: once the token is revoked, in every later state
\* is_revoked stays true, is_valid() stays false, and use(), revoke() and
\* extend_expiry(d) fail.
C4_RevokedIsTerminal ==
    [][(tok # NoToken /\ tok.is_revoked) =>
          /\ tok'.is_revoked
          /\ \A clk \in ClockValues : ~is_valid(tok', clk)
          /\ res'.op \in TokenMutators => (~res'.ok /\ tok' = tok)]_vars

\* extend_expiry with a number of days in 1..90 was refused on a token that
\* was revoked earlier and has not expired
C4_Witness ==
    /\ tok # NoToken
    /\ tok.is_revoked
    /\ res.op = "extend_expiry"
    /\ res.days \in 1..90
    /\ ~res.ok
    /\ tok.revoked_at < now
    /\ tok.expires_at > now

\* C5: a RefreshToken returned by RefreshToken.create (expires_in_days in
\* 1..90) is valid immediately after creation, with is_revoked false,
\* revoked_at null and last_used_at null; after one successful revoke()
\* is_valid() is false.
C5_CreatedValidThenRevokedInvalid ==
    /\ (res.op = "create" /\ res.days \in 1..90) => res.ok
    /\ (res.op \in TokenFactories /\ res.ok) =>
           /\ tok # NoToken
           /\ is_valid(tok, now)
           /\ tok.is_revoked = FALSE
           /\ tok.revoked_at = NULL
           /\ tok.last_used_at = NULL
    /\ (res.op = "revoke" /\ res.ok) => ~is_valid(tok, now)

\* a token was revoked at the instant of its creation, long before it expires
C5_Witness ==
    /\ res.op = "revoke"
    /\ res.ok
    /\ tok.revoked_at = tok.created_at
    /\ tok.expires_at > now

\* C6: revoke() succeeds exactly when is_revoked is false, whether or not the
\* token has expired; on success it sets is_revoked and sets revoked_at to
\* the current time; a second revoke() fails with a business-rule error and
\* leaves revoked_at as the first call set it.
C6_RevokeOnceOnly ==
    [][res'.op = "revoke" =>
          /\ res'.ok <=> ~tok.is_revoked
          /\ res'.ok => tok' = [tok EXCEPT !.is_revoked = TRUE, !.revoked_at = now']
          /\ ~res'.ok => /\ res'.err = "BusinessRuleViolationError"
                         /\ tok'.revoked_at = tok.revoked_at
                         /\ tok' = tok]_vars

\* a token revoked after it had expired refuses a later, second revoke()
C6_Witness ==
    /\ res.op = "revoke"
    /\ ~res.ok
    /\ tok.is_revoked
    /\ tok.expires_at <= tok.revoked_at
    /\ tok.revoked_at < now

\* C7: extend_expiry(days) fails when days is outside 1..90 and fails when
\* the token is not valid; in every other case it succeeds and the new
\* expires_at is strictly greater than the expires_at before the call.
C7_ExtendStrictlyIncreasesExpiry ==
    [][res'.op = "extend_expiry" =>
          /\ res'.days \notin 1..90 => ~res'.ok
          /\ ~NotRevokedAndUnexpired(tok, now) => ~res'.ok
          /\ (res'.days \in 1..90 /\ NotRevokedAndUnexpired(tok, now)) =>
                 (res'.ok /\ tok'.expires_at > tok.expires_at)]_vars

\* C8: use() succeeds exactly when the token is valid; on success it sets
\* last_used_at to the current time and changes no other field; on failure it
\* raises a business-rule error and last_used_at keeps its value.
C8_UseRequiresValid ==
    [][res'.op = "use" =>
          /\ res'.ok <=> NotRevokedAndUnexpired(tok, now)
          /\ res'.ok => tok' = [tok EXCEPT !.last_used_at = now']
          /\ ~res'.ok => /\ res'.err = "BusinessRuleViolationError"
                         /\ tok'.last_used_at = tok.last_used_at
                         /\ tok' = tok]_vars

\* use() was refused on an expired, never revoked token that had been used
\* before
C8_Witness ==
    /\ res.op = "use"
    /\ ~res.ok
    /\ ~tok.is_revoked
    /\ tok.expires_at <= now
    /\ tok.last_used_at # NULL

\* C9: round trip of the refresh-token hash: for every plaintext t passed to
\* RefreshToken.create the entity satisfies verify_token(t), and
\* verify_token(s) is false for every s different from t.
C9_HashRoundTrip ==
    tok # NoToken =>
        /\ verify_token(tok, plain)
        /\ \A s \in Strings \ {plain} : ~verify_token(tok, s)
        /\ res.op = "verify_token" => (res.ret <=> res.token = plain)

\* C10: a refresh token is issued with a lifetime of exactly 30 days when
\* remember_me is false and exactly 90 days when it is true, and
\* RefreshToken.create rejects expires_in_days outside 1..90 with a
\* validation error without producing a token.
C10_IssuedLifetimes ==
    /\ res.op = "create_refresh_token" =>
           /\ res.ok
           /\ tok.expires_at - tok.created_at = (IF res.flag THEN 90 ELSE 30)
    /\ res.op = "create_long_lived" =>
           (res.ok /\ tok.expires_at - tok.created_at = 90)
    /\ res.op = "create" =>
           /\ res.ok <=> res.days \in 1..90
           /\ res.ok => tok.expires_at - tok.created_at = res.days
           /\ ~res.ok => (res.err = "DomainValidationError" /\ tok = NoToken)

\* a token was issued with remember_me set and expires 90 days after the
\* instant of its creation
C10_Witness ==
    /\ res.op = "create_refresh_token"
    /\ res.flag
    /\ tok.created_at = now
    /\ tok.expires_at = now + 90

-----------------------------------------------------------------------------
(* Properties of the User: status, role, email and login operations *)

\* C14: verify_email() on a user in PENDING_VERIFICATION with
\* email_verified_at null sets status to ACTIVE and email_verified_at to the
\* current time; an immediately following second verify_email() fails with a
\* business-rule error and changes nothing.
C14_VerifyEmailOnce ==
    [][res'.op = "verify_email" =>
          /\ (user.status = "PENDING_VERIFICATION" /\ user.email_verified_at = NULL) =>
                 /\ res'.ok
                 /\ user'.status = "ACTIVE"
                 /\ user'.email_verified_at = now
          /\ (res.op = "verify_email" /\ res.ok) =>
                 /\ ~res'.ok
                 /\ res'.err = "BusinessRuleViolationError"
                 /\ user' = user]_vars

\* verify_email() was refused on an account that an earlier verify_email()
\* had activated and that nothing else has touched since
C14_Witness ==
    /\ user # NoUser
    /\ res.op = "verify_email"
    /\ ~res.ok
    /\ user.status = "ACTIVE"
    /\ user.email_verified_at # NULL
    /\ user.updated_at >= user.email_verified_at
    /\ user.created_at < user.email_verified_at
    /\ user.role = "USER"
    /\ user.login_count = 0

\* C15: record_login() succeeds exactly when status is ACTIVE; on success
\* login_count increases by exactly 1 and last_login_at is set to the current
\* time; on a PENDING_VERIFICATION, INACTIVE or SUSPENDED user it fails and
\* login_count and last_login_at are unchanged.
C15_RecordLoginRequiresActive ==
    [][res'.op = "record_login" =>
          /\ res'.ok <=> user.status = "ACTIVE"
          /\ res'.ok => /\ user'.login_count = user.login_count + 1
                        /\ user'.last_login_at = now
          /\ ~res'.ok => /\ res'.err = "BusinessRuleViolationError"
                         /\ user'.login_count = user.login_count
                         /\ user'.last_login_at = user.last_login_at]_vars

\* record_login() was refused on a suspended user who had logged in once
C15_Witness ==
    /\ user # NoUser
    /\ res.op = "record_login"
    /\ ~res.ok
    /\ user.status = "SUSPENDED"
    /\ user.login_count = 1
    /\ user.last_login_at # NULL

\* C16: activate() succeeds iff status is not ACTIVE and then status is
\* ACTIVE; suspend() succeeds iff status is not SUSPENDED and then status is
\* SUSPENDED; deactivate() succeeds iff status is not INACTIVE and then status
\* is INACTIVE; activate() needs no verified email.
C16_StatusTransitionTable ==
    [][/\ res'.op = "activate" =>
              /\ res'.ok <=> user.status # "ACTIVE"
              /\ res'.ok => user'.status = "ACTIVE"
       /\ res'.op = "suspend" =>
              /\ res'.ok <=> user.status # "SUSPENDED"
              /\ res'.ok => user'.status = "SUSPENDED"
       /\ res'.op = "deactivate" =>
              /\ res'.ok <=> user.status # "INACTIVE"
              /\ res'.ok => user'.status = "INACTIVE"]_vars

\* activate() succeeded on a user whose email was never verified
C16_Witness ==
    /\ user # NoUser
    /\ res.op = "activate"
    /\ res.ok
    /\ user.status = "ACTIVE"
    /\ user.email_verified_at = NULL

\* C17: a user created by User.create is in status INACTIVE or SUSPENDED only
\* if it has been ACTIVE at some earlier point: PENDING_VERIFICATION leads to
\* ACTIVE, and only ACTIVE leads into INACTIVE or SUSPENDED. As a property of
\* single steps: a step that takes the user into {INACTIVE, SUSPENDED} from
\* outside that set starts in ACTIVE.
C17_InactiveOrSuspendedOnlyAfterActive ==
    [][(/\ user # NoUser
        /\ user.status \notin {"INACTIVE", "SUSPENDED"}
        /\ user'.status \in {"INACTIVE", "SUSPENDED"})
          => user.status = "ACTIVE"]_vars

\* C17, amended: the user starts in PENDING_VERIFICATION and never returns to
\* it; it becomes INACTIVE only by a successful deactivate() and SUSPENDED only
\* by a successful suspend(), and both succeed on a PENDING_VERIFICATION user,
\* so INACTIVE or SUSPENDED can be reached without ever being ACTIVE.
C17_LifecycleOrdering ==
    [][/\ res'.op = "user_create" => user'.status = "PENDING_VERIFICATION"
       /\ user # NoUser =>
              /\ user'.status = "PENDING_VERIFICATION" =>
                     user.status = "PENDING_VERIFICATION"
              /\ (user'.status = "INACTIVE" /\ user.status # "INACTIVE") =>
                     (res'.op = "deactivate" /\ res'.ok)
              /\ (user'.status = "SUSPENDED" /\ user.status # "SUSPENDED") =>
                     (res'.op = "suspend" /\ res'.ok)
              /\ (user.status = "PENDING_VERIFICATION"
                      /\ res'.op \in {"suspend", "deactivate"}) =>
                     (res'.ok /\ user'.status \in {"INACTIVE", "SUSPENDED"})]_vars

\* suspend() succeeded on a created user at the instant of its creation, with
\* no email verification and no login on record
C17_Witness ==
    /\ user # NoUser
    /\ res.op = "suspend"
    /\ res.ok
    /\ user.status = "SUSPENDED"
    /\ user.role = "USER"
    /\ user.email_verified_at = NULL
    /\ user.login_count = 0
    /\ user.updated_at = user.created_at

\* C18: promote_to_moderator() succeeds iff role is not ADMIN and status is
\* ACTIVE, and then role is MODERATOR; promote_to_admin() succeeds iff status
\* is ACTIVE, whatever the role, and then role is ADMIN; demote_to_user()
\* succeeds iff role is not USER, whatever the status, and then role is USER.
C18_RoleTransitionTable ==
    [][/\ res'.op = "promote_to_moderator" =>
              /\ res'.ok <=> (user.role # "ADMIN" /\ user.status = "ACTIVE")
              /\ res'.ok => user'.role = "MODERATOR"
       /\ res'.op = "promote_to_admin" =>
              /\ res'.ok <=> user.status = "ACTIVE"
              /\ res'.ok => user'.role = "ADMIN"
       /\ res'.op = "demote_to_user" =>
              /\ res'.ok <=> user.role # "USER"
              /\ res'.ok => user'.role = "USER"]_vars

\* demote_to_user() succeeded on a suspended user
C18_Witness ==
    /\ user # NoUser
    /\ res.op = "demote_to_user"
    /\ res.ok
    /\ user.role = "USER"
    /\ user.status = "SUSPENDED"

\* C19: no single operation takes the role from ADMIN to MODERATOR, so a user
\* who is ADMIN in one state and MODERATOR in a later one has role USER in
\* some state in between (USER is the only other role).
C19_NoAdminToModeratorStep ==
    [][(user # NoUser /\ user.role = "ADMIN") =>
          /\ user'.role \in {"ADMIN", "USER"}
          /\ res'.op = "promote_to_moderator" => (~res'.ok /\ user' = user)]_vars

\* promote_to_moderator() was refused on an active administrator
C19_Witness ==
    /\ user # NoUser
    /\ res.op = "promote_to_moderator"
    /\ ~res.ok
    /\ user.role = "ADMIN"
    /\ user.status = "ACTIVE"

\* C20: change_email(new) succeeds iff new differs from the current email; on
\* success the email is replaced, email_verified_at becomes null and status is
\* unchanged, and a verify_email() that follows succeeds; with the current
\* email it fails and leaves email and email_verified_at unchanged.
C20_ChangeEmailResetsVerification ==
    [][/\ res'.op = "change_email" =>
              /\ res'.ok <=> res'.text # user.email
              /\ res'.ok => /\ user'.email = res'.text
                            /\ user'.email_verified_at = NULL
                            /\ user'.status = user.status
              /\ ~res'.ok => /\ res'.err = "BusinessRuleViolationError"
                             /\ user'.email = user.email
                             /\ user'.email_verified_at = user.email_verified_at
       /\ (res.op = "change_email" /\ res.ok /\ res'.op = "verify_email") =>
              (res'.ok /\ user'.email_verified_at = now)]_vars

\* change_email() succeeded on an account that was active, and the email is
\* unverified again while the account is still active
C20_Witness ==
    /\ user # NoUser
    /\ res.op = "change_email"
    /\ res.ok
    /\ user.email = res.text
    /\ user.email_verified_at = NULL
    /\ user.status = "ACTIVE"
    /\ user.login_count > 0

-----------------------------------------------------------------------------
(* Properties of the access-token claims and of extract_user_id_from_token *)

\* C11: for every user and every set of caller-supplied extra claims, the
\* claim set built for an access token has sub equal to the stringified id of
\* the user, type equal to "access", and username, email, role and
\* email_verified equal to the user's current values.
C11_ClaimsCarryTheUser ==
    res.op = "to_claims" =>
        /\ res.claims.sub = str_UserId(user.id)
        /\ res.claims.type = "access"
        /\ res.claims.username = str_Username(user.username)
        /\ res.claims.email = str_Email(user.email)
        /\ res.claims.role = role_value(user.role)
        /\ res.claims.email_verified = is_email_verified(user)

\* C12: extract_user_id_from_token(token) either returns the UserId parsed
\* from the sub claim of a successfully verified token or fails with
\* InvalidTokenError: a verification failure of any kind, a missing or empty
\* sub and a sub that is not a well-formed id all surface as
\* InvalidTokenError, and no other error kind escapes.
C12_ExtractReturnsIdOrInvalidToken ==
    res.op = "extract_user_id_from_token" =>
        LET payload == verify_access_token(res.text)
            parses == /\ payload.ok
                      /\ "sub" \in DOMAIN payload.ret
                      /\ payload.ret.sub # ""
                      /\ payload.ret.sub \in DOMAIN UuidTexts
        IN  /\ parses => (res.ok /\ res.out = UuidTexts[payload.ret.sub])
            /\ ~parses => (~res.ok /\ res.err = "InvalidTokenError")

\* the sub claim of a verified token was not a UUID, and the call failed with
\* InvalidTokenError
C12_Witness ==
    /\ res.op = "extract_user_id_from_token"
    /\ res.text = "jwt.badsub"
    /\ verify_access_token(res.text).ok
    /\ ~from_string(decode(res.text).sub).ok
    /\ ~res.ok
    /\ res.err = "InvalidTokenError"

\* the operations of the TokenService that take an access token
AccessTokenOps == {"verify_access_token", "extract_user_id_from_token"}

\* C13: every TokenService operation that rejects an access token reports an
\* expired token with TokenExpiredError, an outcome the caller can tell apart
\* from the InvalidTokenError of a malformed or invalid token.
C13_ExpiredToldApartFromInvalid ==
    (res.op \in AccessTokenOps /\ ~res.ok) =>
        LET verified == verify_access_token(res.text)
        IN  /\ verified.err = "TokenExpiredError" => res.err = "TokenExpiredError"
            /\ verified.err = "InvalidTokenError" => res.err = "InvalidTokenError"

\* C13, amended: verify_access_token reports an expired token with
\* TokenExpiredError and a malformed or invalid one with InvalidTokenError;
\* extract_user_id_from_token reports every rejection, that of an expired
\* token included, with InvalidTokenError.
C13_ExpiredToldApartByVerifyOnly ==
    LET verified == verify_access_token(res.text)
    IN  /\ (res.op = "verify_access_token" /\ ~res.ok) =>
               /\ verified.err = "TokenExpiredError" => res.err = "TokenExpiredError"
               /\ verified.err = "InvalidTokenError" => res.err = "InvalidTokenError"
        /\ (res.op = "extract_user_id_from_token" /\ ~verified.ok) =>
               (~res.ok /\ res.err = "InvalidTokenError")

\* extract_user_id_from_token was given an expired token and failed with
\* InvalidTokenError
C13_Witness ==
    /\ res.op = "extract_user_id_from_token"
    /\ verify_access_token(res.text).err = "TokenExpiredError"
    /\ ~res.ok
    /\ res.err = "InvalidTokenError"

-----------------------------------------------------------------------------
(* Properties of the User: timestamps, creation and profile *)

\* the outcomes of every mutating operation of the User, called at clock t
MutatorOutcomes(u, t) ==
    {activate(u, t), suspend(u, t), deactivate(u, t),
     promote_to_moderator(u, t), promote_to_admin(u, t), demote_to_user(u, t),
     subscribe_to_newsletter(u, t), unsubscribe_from_newsletter(u, t)}
    \cup {verify_email(u, t, t2) : t2 \in Reads(t)}
    \cup {record_login(u, t, t2) : t2 \in Reads(t)}
    \cup {change_password(u, p, t) : p \in Passwords}
    \cup {change_email(u, e, t) : e \in Emails}
    \cup {change_username(u, n, t) : n \in Usernames}
    \cup {update_profile(u, x[1], x[2], x[3], t) :
              x \in NameInputs \X NameInputs \X UrlInputs}

\* C21: every successful mutating operation on a User (status, role, email,
\* username, password, profile, login and newsletter operations) sets
\* updated_at to the time of the call; so, the clock never going back,
\* updated_at never decreases and created_at <= updated_at in every state.
C21_UpdatedAtFollowsTheClock ==
    /\ [](user # NoUser =>
             /\ user.created_at <= user.updated_at
             /\ user.updated_at <= now
             /\ \A r \in MutatorOutcomes(user, now) :
                    r.ok => /\ r.self.updated_at = r.clk
                            /\ r.clk \in Reads(now)
                            /\ r.self.created_at = user.created_at)
    /\ [][user # NoUser => user'.updated_at >= user.updated_at]_vars

\* a login was recorded while the clock moved: updated_at holds the later
\* read, after the creation and after last_login_at
C21_Witness ==
    /\ user # NoUser
    /\ res.op = "record_login"
    /\ res.ok
    /\ user.updated_at = now
    /\ user.updated_at > user.last_login_at
    /\ user.created_at < user.last_login_at

\* what C22 says of a user returned by User.create
FreshUser(u) ==
    /\ u.status = "PENDING_VERIFICATION"
    /\ u.role = "USER"
    /\ u.login_count = 0
    /\ u.last_login_at = NULL
    /\ u.email_verified_at = NULL
    /\ u.created_at = u.updated_at

\* C22: a user returned by User.create is in status PENDING_VERIFICATION with
\* role USER, login_count 0, last_login_at null, email_verified_at null and
\* created_at equal to updated_at, for every combination of inputs.
C22_CreatedUserIsPending ==
    /\ res.op = "user_create" => (FreshUser(user) /\ user.created_at = now)
    /\ \A email \in Emails, username \in Usernames, password \in Passwords,
          first_name \in NameInputs, last_name \in NameInputs :
            FreshUser(user_create(email, username, password, first_name,
                                  last_name, UserIdValue, now))

\* User.create returned a user whose names were given with blanks around
\* them and with more than 50 characters
C22_Witness ==
    /\ user # NoUser
    /\ res.op = "user_create"
    /\ user.first_name = Str(0, 50, 0)
    /\ user.last_name = Str(0, 51, 0)
    /\ user.status = "PENDING_VERIFICATION"

-----------------------------------------------------------------------------
(* Properties of the commands *)

CommandOps ==
    {"LoginUserCommand", "VerifyEmailCommand", "UpdateProfileCommand",
     "ChangeEmailCommand", "RevokeTokenCommand"}

\* C24: for every command, if a domain validation or an aggregate operation
\* of the command fails, no repository save is performed for it, so the
\* stored User and RefreshToken equal those before the command started.
C24_FailedCommandSavesNothing ==
    [][(res'.op \in CommandOps /\ ~res'.ok) =>
          (user' = user /\ tok' = tok /\ plain' = plain)]_vars

\* UpdateProfileCommand failed on the last name after update_profile had
\* assigned the first name to the loaded user; the stored user has none
C24_Witness ==
    /\ user # NoUser
    /\ res.op = "UpdateProfileCommand"
    /\ ~res.ok
    /\ res.dirty
    /\ user.first_name = NoneStr

\* C25: in every reachable state of a User (created by User.create or
\* User.create_admin and then changed by any sequence of update_profile
\* calls), first_name and last_name, when set, are at most 50 characters long
\* and avatar_url, when set, is at most 500 characters long.
C25_ProfileFieldsWithinLimits ==
    user # NoUser =>
        /\ user.first_name # NoneStr => len(user.first_name) <= 50
        /\ user.last_name # NoneStr => len(user.last_name) <= 50
        /\ user.avatar_url # NoneStr => len(user.avatar_url) <= 500

-----------------------------------------------------------------------------
(* Properties of the value objects *)

\* C26: for every plaintext password p that meets the strength rules,
\* Password.from_plain_text(p).verify(p) is true and verify(w) is false for
\* every plaintext w different from p (the empty string included).
C26_VerifyAcceptsOnlyThePassword ==
    (res.op = "from_plain_text.verify" /\ _validate_password_strength(res.token).ok) =>
        /\ res.ok
        /\ res.ret <=> (res.against = res.token)

\* the strength rules as C27 words them: length outside 8..128, fewer than 3
\* of the 4 character classes, in the denylist whatever the case, fewer
\* distinct characters than half the length
ViolatesAStrengthRule(p) ==
    \/ Len(p) < 8 \/ Len(p) > 128
    \/ requirements_met(p) < 3
    \/ lower(p) \in common_passwords
    \/ 2 * Cardinality(Range(p)) < Len(p)

\* C27: Password.from_plain_text(p) fails with WeakPasswordError, producing no
\* Password, whenever p violates at least one strength rule, and it succeeds
\* when p violates none of them.
C27_StrengthRulesDecideConstruction ==
    res.op = "from_plain_text" =>
        /\ ViolatesAStrengthRule(res.token) =>
               (~res.ok /\ res.err = "WeakPasswordError")
        /\ ~ViolatesAStrengthRule(res.token) => res.ok

\* the rules of C28 on a value
WellFormedUsername(v) ==
    /\ Len(v) >= 3 /\ Len(v) <= 30
    /\ \A i \in 1..Len(v) : v[i] \in Range(Letters) \cup Range(Digits) \cup {"_", "-"}
    /\ v[1] \notin {"_", "-"} /\ v[Len(v)] \notin {"_", "-"}
    /\ lower(v) \notin forbidden_usernames

\* C28: the construction of a Username succeeds iff the value has 3 to 30
\* characters, all of them letters, digits, "_" or "-", the first and the last
\* neither "_" nor "-", and its lower-case form is not reserved; otherwise it
\* fails with a validation error ("admin", "ab" and "a_" fail, "valid_user-1"
\* succeeds)
C28_UsernameConstructedIffWellFormed ==
    res.op = "Username" =>
        /\ res.ok <=> WellFormedUsername(res.token)
        /\ ~res.ok => res.err = "InvalidUsernameError"

\* the local@domain.tld pattern of C29 on a value: a local part of one or
\* more characters, "@", a domain of one or more, ".", and two or more letters
LocalAtDomainTld(v) ==
    \E a \in 1..Len(v), d \in 1..Len(v) :
        /\ 1 < a /\ a + 1 < d /\ d + 2 <= Len(v)
        /\ v[a] = "@" /\ v[d] = "."
        /\ \A i \in 1..Len(v) :
              /\ i < a => v[i] \in Range(EmailLocalCharacters)
              /\ (a < i /\ i < d) => v[i] \in Range(EmailDomainCharacters)
              /\ d < i => v[i] \in Range(Letters)

\* the part of v after its first "@"
AfterAt(v) ==
    LET a == CHOOSE i \in 1..Len(v) : v[i] = "@" /\ \A j \in 1..(i - 1) : v[j] # "@"
    IN  [i \in 1..(Len(v) - a) |-> v[a + i]]

\* C29: the construction of an Email succeeds iff the value is not empty, has
\* the form local@domain.tld, has at most 254 characters and at most 64
\* before the "@"; otherwise it fails with a validation error; the domain of a
\* constructed Email is the part after the "@"
C29_EmailConstructedIffWellFormed ==
    res.op = "Email" =>
        /\ res.ok <=> /\ res.token # <<>>
                      /\ LocalAtDomainTld(res.token)
                      /\ Len(res.token) <= 254
                      /\ Len(res.token) - Len(AfterAt(res.token)) - 1 <= 64
        /\ ~res.ok => res.err = "InvalidEmailError"
        /\ res.ok => res.domain = AfterAt(res.token)

\* C30: invalidity is absorbing: a token for which is_valid() is false, by
\* expiry or by revocation, is not valid after any step of use, revoke,
\* extend_expiry or of the clock; extend_expiry does not revive an expired
\* token
C30_InvalidityIsAbsorbing ==
    [][(tok # NoToken /\ ~is_valid(tok, now)) =>
           (tok' # NoToken /\ ~is_valid(tok', now'))]_vars

\* an expired token that was not revoked, after an extend_expiry with a number
\* of days in range was refused
C30_Witness ==
    /\ tok # NoToken
    /\ ~tok.is_revoked
    /\ is_expired(tok, now)
    /\ res.op = "extend_expiry"
    /\ res.days \in 1..90
    /\ ~res.ok
    /\ res.err = "BusinessRuleViolationError"

\* C31: in every reachable state of a token the remaining lifetime
\* expires_at - now is at most 90 days, whatever the extensions
C31_RemainingLifetimeAtMost90Days ==
    tok # NoToken => tok.expires_at - now <= 90

\* a token extended by 90 days after its creation: 90 days remain and the
\* total lifetime expires_at - created_at is above 90 days
C31_Witness ==
    /\ tok # NoToken
    /\ res.op = "extend_expiry"
    /\ res.ok
    /\ tok.expires_at - now = 90
    /\ tok.expires_at - tok.created_at > 90

\* C32: in every reachable state of a token created_at < expires_at, and when
\* last_used_at is set, created_at <= last_used_at < expires_at
C32_TimestampsOrdered ==
    tok # NoToken =>
        /\ tok.created_at < tok.expires_at
        /\ tok.last_used_at # NULL =>
               (tok.created_at <= tok.last_used_at /\ tok.last_used_at < tok.expires_at)

\* C33: in every reachable state of a token is_revoked is true iff revoked_at
\* is set, and revoked_at, once set, never changes
C33_RevokedAtSetOnceWithTheFlag ==
    /\ [](tok # NoToken => (tok.is_revoked <=> tok.revoked_at # NULL))
    /\ [][(tok # NoToken /\ tok.revoked_at # NULL) =>
              (tok' # NoToken /\ tok'.revoked_at = tok.revoked_at)]_vars

\* a revoked token on which a later revoke() was refused
C33_Witness ==
    /\ tok # NoToken
    /\ tok.is_revoked
    /\ res.op = "revoke"
    /\ ~res.ok
    /\ tok.revoked_at < now

\* C34: verify_token(t) changes no field of the token and its answer is a
\* function of t and token_hash alone: t is not empty and hashes to
\* token_hash; so the plaintext the token was created from, when not empty,
\* verifies on a valid, on an expired and on a revoked token alike
C34_VerifyTokenReadsOnlyTheHash ==
    [][res'.op = "verify_token" =>
          /\ tok' = tok
          /\ res'.ret <=> (res'.token # <<>> /\ _hash_token(res'.token) = tok.token_hash)
          /\ (res'.token = plain /\ plain # <<>>) => res'.ret]_vars

\* the plaintext of a token that is revoked and expired verifies as true
C34_Witness ==
    /\ tok # NoToken
    /\ tok.is_revoked
    /\ is_expired(tok, now)
    /\ res.op = "verify_token"
    /\ res.token = plain
    /\ res.ret

\* C35: verify_email() on a user whose email_verified_at is null sets
\* email_verified_at; a status ACTIVE, INACTIVE or SUSPENDED is left as it is,
\* and only PENDING_VERIFICATION becomes ACTIVE
C35_VerifyEmailMovesOnlyPending ==
    [][(res'.op = "verify_email" /\ user.email_verified_at = NULL) =>
          /\ res'.ok
          /\ user'.email_verified_at = now
          /\ user.status \in {"ACTIVE", "INACTIVE", "SUSPENDED"} =>
                 user'.status = user.status
          /\ user.status = "PENDING_VERIFICATION" => user'.status = "ACTIVE"]_vars

\* a suspended user whose email has just been verified
C35_Witness ==
    /\ user # NoUser
    /\ res.op = "verify_email"
    /\ res.ok
    /\ user.status = "SUSPENDED"
    /\ user.email_verified_at # NULL

\* C36: PENDING_VERIFICATION is never re-entered: from a state where the
\* status differs from it no operation on the user leads to a state where the
\* status is PENDING_VERIFICATION, change_email included
C36_PendingNeverReentered ==
    [][(user # NoUser /\ user.status # "PENDING_VERIFICATION") =>
           (user' # NoUser /\ user'.status # "PENDING_VERIFICATION")]_vars

\* a deactivated user who had logged in, and whose change_email then cleared
\* email_verified_at: the status is still INACTIVE
C36_Witness ==
    /\ user # NoUser
    /\ res.op = "change_email"
    /\ res.ok
    /\ user.email_verified_at = NULL
    /\ user.login_count > 0
    /\ user.status = "INACTIVE"

\* C37: activate, suspend and deactivate change only status and updated_at;
\* promote_to_moderator, promote_to_admin and demote_to_user change only role
\* and updated_at; record_login changes only last_login_at, login_count and
\* updated_at
C37_OperationsChangeOnlyTheirFields ==
    [][/\ res'.op \in {"activate", "suspend", "deactivate"} =>
              user' = [user EXCEPT !.status = user'.status,
                                   !.updated_at = user'.updated_at]
       /\ res'.op \in {"promote_to_moderator", "promote_to_admin", "demote_to_user"} =>
              user' = [user EXCEPT !.role = user'.role,
                                   !.updated_at = user'.updated_at]
       /\ res'.op = "record_login" =>
              user' = [user EXCEPT !.last_login_at = user'.last_login_at,
                                   !.login_count = user'.login_count,
                                   !.updated_at = user'.updated_at]]_vars

\* an administrator who has logged in and has just been suspended: the role
\* and the login count are kept
C37_Witness ==
    /\ user # NoUser
    /\ res.op = "suspend"
    /\ res.ok
    /\ user.status = "SUSPENDED"
    /\ user.role = "ADMIN"
    /\ user.login_count > 0
    /\ user.email_verified_at # NULL

\* C38: login_count is the number of record_login() calls that succeeded: it
\* is 0 for a user just created, a successful record_login() adds 1 and no
\* other step changes it, so it never decreases; and in every reachable state
\* last_login_at is null exactly when login_count is 0
C38_LoginCountCountsLogins ==
    /\ [](user # NoUser => (user.last_login_at = NULL <=> user.login_count = 0))
    /\ [][/\ (user = NoUser /\ user' # NoUser) => user'.login_count = 0
          /\ user # NoUser =>
                 /\ user' # NoUser
                 /\ user'.login_count =
                        IF res'.op = "record_login" /\ res'.ok
                        THEN user.login_count + 1
                        ELSE user.login_count]_vars

\* a user after as many successful logins as the model allows
C38_Witness ==
    /\ user # NoUser
    /\ res.op = "record_login"
    /\ res.ok
    /\ user.login_count = MaxLogins
    /\ user.last_login_at # NULL

\* C39: the user User.create_admin returns is ACTIVE, ADMIN and has
\* email_verified_at set; called on it, record_login() succeeds and
\* verify_email(), activate() and promote_to_moderator() each fail
C39_CreatedAdminIsActiveAndVerified ==
    /\ [](res.op = "create_admin" =>
              /\ user # NoUser
              /\ user.status = "ACTIVE"
              /\ user.role = "ADMIN"
              /\ user.email_verified_at # NULL)
    /\ [][res.op = "create_admin" =>
              /\ res'.op = "record_login" => res'.ok
              /\ res'.op \in {"verify_email", "activate", "promote_to_moderator"} =>
                     (~res'.ok /\ res'.err = "BusinessRuleViolationError" /\ user' = user)]_vars

\* promote_to_moderator() was refused on an administrator that no operation
\* has changed since create_admin
C39_Witness ==
    /\ user # NoUser
    /\ res.op = "promote_to_moderator"
    /\ ~res.ok
    /\ user.role = "ADMIN"
    /\ user.status = "ACTIVE"
    /\ user.email_verified_at # NULL
    /\ user.email_verified_at <= user.created_at
    /\ user.updated_at = user.created_at
    /\ user.login_count = 0

====
